---- MODULE Spec2Model ----
(***************************************************************************)
(* State-machine model of the Curve APY backend: the ingestion task        *)
(* fetch_all_pool_metrics (src/apy/tasks.py) with its two providers        *)
(* (src/apy/onchain.py, src/apy/curve.py), its scheduling by celery beat   *)
(* (src/apy/worker.py), the deposit service calculate_total_earning and    *)
(* the history service get_pool_apy_history (src/apy/services.py), over    *)
(* the two tables pool_metrics and user_positions (src/apy/database.py).   *)
(*                                                                         *)
(* Conventions.  A nullable value is a sequence of length <= 1: << >> is   *)
(* Python None / SQL NULL and <<v>> is the value v.  Floats are modelled   *)
(* by integers (the values used are small and their sums are exact).       *)
(* Times are integers counted in days.                                     *)
(***************************************************************************)
EXTENDS Integers, Sequences, FiniteSets, TLC

VARIABLES
    clock,          \* datetime.utcnow(), in days
    retention_days, \* POOL_METRIC_RETENTION_DAYS as read by the task
    metrics,        \* committed rows of table pool_metrics
    nextId,         \* next autoincrement id of pool_metrics
    cycle,          \* number of beat firings so far
    pc,             \* position of the task execution
    retries,        \* self.request.retries of the running execution
    countdowns,     \* the delay of each retry asked for in this firing, by number
    onchainOut,     \* what fetch_onchain_pool_data did in this attempt
    apiOut,         \* what fetch_pool_data did in this attempt
    pool_metrics,   \* local pool_metrics of the task
    idx,            \* number of entries of pool_metrics already processed
    now,            \* local now of the task
    sessNew,        \* session.new: pending PoolMetric objects, in order
    sessDirty,      \* session.dirty: id -> modified column values
    sessDeleted,    \* ids deleted by the sweep inside the open transaction
    inserted,       \* local counter inserted
    updated,        \* local counter updated
    status,         \* gauge DATA_SOURCE_STATUS per source
    failures,       \* counter DATA_SOURCE_FAILURE_COUNTER per source
    insertedTotal,  \* counter METRIC_INSERT_COUNTER
    metricsAtStart, \* history: pool_metrics table when the attempt started
    failuresAtStart,\* history: failures when the attempt started
    readerView,     \* result of the reader query made since the task's last step
    position,       \* amount of the user_positions row (user, pool), << >> if no row
    position0,      \* history: position before any call
    dpc,            \* position of each calculate_total_earning call
    seen,           \* what each call read at services.py:118-125
    amount,         \* the amount argument of each call
    fired,          \* number of task messages celery beat has sent
    broker,         \* task messages waiting in the broker
    executing,      \* task messages being executed by worker processes
    outcome,        \* how the executions of each firing ended
    hargs,          \* arguments of the get_pool_apy_history call
    hout,           \* what the get_pool_apy_history call gave its caller
    dres,           \* what each calculate_total_earning call returned
    user_positions, \* the user_positions rows other than the row (user, pool)
    sargs,          \* argument of the get_user_positions call
    summary,        \* what the get_user_positions call returned
    returns,        \* argument of the calculate_compound_apy call
    compound_apy,   \* what the calculate_compound_apy call returned
    sessionLog      \* history: what each operation did with its session

ingestVars == <<clock, retention_days, metrics, nextId, cycle, pc, retries, countdowns, countdowns,
                onchainOut, apiOut, pool_metrics, idx, now, sessNew, sessDirty,
                sessDeleted, inserted, updated, status, failures, insertedTotal,
                metricsAtStart, failuresAtStart, readerView>>
depositVars == <<position, position0, dpc, seen, amount, dres>>
beatVars == <<fired, broker, executing, outcome>>
historyVars == <<hargs, hout>>
earningVars == <<user_positions, sargs, summary, returns, compound_apy>>
vars == <<ingestVars, depositVars, beatVars, historyVars, earningVars, sessionLog>>

\* what the ingestion task, the deposit service and the scheduler leave alone
nonIngestVars == <<depositVars, beatVars, historyVars, earningVars>>
nonDepositVars == <<ingestVars, beatVars, historyVars, earningVars>>
nonBeatVars == <<ingestVars, depositVars, historyVars, earningVars, sessionLog>>
nonHistoryVars == <<ingestVars, depositVars, beatVars, earningVars>>
nonEarningVars == <<ingestVars, depositVars, beatVars, historyVars>>

----------------------------------------------------------------------------
(* Bounds of the model *)

\* beat firings
MaxCycles == 2
\* last day the clock reaches
MaxTime == 2
\* the positive value of POOL_METRIC_RETENTION_DAYS that is tried, in days
RetentionWindow == 1
\* concurrent calls of calculate_total_earning
NCallers == 2
\* largest deposit amount and largest prior amount
MaxAmount == 2
\* the primary provider fails at most this often (caps the failure counters)
MaxFailures == 2
\* worker processes of the celery worker (its default is one per CPU core)
WorkerProcesses == 2

(* Program constants *)

MaxRetries == 3

----------------------------------------------------------------------------
(* Python values *)

None == << >>
Some(v) == <<v>>

\* dict.get(k): None when the key is absent
Get(d, k) == IF k \in DOMAIN d THEN Some(d[k]) ELSE None

\* dict.get(k, default)
GetDefault(d, k, dflt) == IF k \in DOMAIN d THEN d[k] ELSE dflt

\* `a or b` on nullable numbers: None and 0 are falsy
OrNum(a, b) == IF a # None /\ a[1] # 0 THEN a ELSE b

\* `a or b` on nullable strings: None and "" are falsy
OrStr(a, b) == IF a # None /\ a[1] # "" THEN a ELSE b

\* str.lower() on the token symbols that occur
Lower(s) == CASE s = "CRV" -> "crv"
              [] s = "Crv" -> "crv"
              [] s = "LDO" -> "ldo"
              [] OTHER -> s

EmptyFn == [x \in {} |-> 0]

----------------------------------------------------------------------------
(* The on-chain provider, src/apy/onchain.py *)

\* What The Graph may answer: a transport/HTTP/JSON error, or a pool list.
\* A raw pool has id, optionally swapFee, and rewardData (gauge.rewardData).
OnchainP1 == [id |-> "p1", swapFee |-> 1,
              rewardData |-> <<[apy |-> 10, symbol |-> "CRV"],
                               [apy |-> 5, symbol |-> "LDO"]>>]
OnchainP2 == [id |-> "p2", rewardData |-> <<[apy |-> 20, symbol |-> "crv"]>>]

OnchainResponses ==
    { [kind |-> "neterr"],
      [kind |-> "ok", pools |-> << >>],
      [kind |-> "ok", pools |-> <<OnchainP1>>],
      [kind |-> "ok", pools |-> <<OnchainP1, OnchainP2>>] }

\* the reward loop of fetch_onchain_pool_data, folded left to right
RECURSIVE OnchainRewards(_, _)
OnchainRewards(rs, acc) ==
    IF rs = << >> THEN acc
    ELSE LET reward == Head(rs)
             apy == OrNum(Get(reward, "apy"), Some(0))[1]
             token_symbol == Lower(OrStr(Get(reward, "symbol"), Some(""))[1])
         IN OnchainRewards(Tail(rs),
                [total_apy |-> acc.total_apy + apy,
                 bribe |-> IF token_symbol = "crv" THEN acc.bribe ELSE acc.bribe + apy,
                 crv_reward |-> IF token_symbol = "crv" THEN apy ELSE acc.crv_reward])

OnchainPool(pool) ==
    LET acc == OnchainRewards(GetDefault(pool, "rewardData", << >>),
                              [total_apy |-> 0, bribe |-> 0, crv_reward |-> 0])
    IN [pool_id |-> pool.id,
        apy |-> acc.total_apy,
        bribe |-> acc.bribe,
        trading_fee |-> OrNum(Get(pool, "swapFee"), OrNum(Get(pool, "fee"), Some(0)))[1],
        crv_reward |-> acc.crv_reward]

\* fetch_onchain_pool_data(): raises on a failed round trip, else the pools
fetch_onchain_pool_data(resp) ==
    IF resp.kind # "ok"
    THEN [called |-> TRUE, kind |-> resp.kind, raised |-> TRUE, value |-> << >>]
    ELSE [called |-> TRUE, kind |-> resp.kind, raised |-> FALSE,
          value |-> [k \in 1..Len(resp.pools) |-> OnchainPool(resp.pools[k])]]

----------------------------------------------------------------------------
(* The REST provider, src/apy/curve.py *)

\* What the Curve API may answer: a transport/HTTP/JSON error ("neterr"), a
\* document whose poolData cannot be iterated as objects ("badshape"), or a
\* pool list.  The apy field of a raw pool is a nested object or a scalar.
\* A list may name the same pool twice (ApiP1 and ApiP1Again).
ApiP1 == [id |-> "p1", apy |-> [tag |-> "dict", d |-> [total |-> 30]],
          bribeApy |-> 2,
          gaugeRewards |-> <<[token |-> "LDO", apy |-> 4], [token |-> "Crv", apy |-> 7]>>]
ApiP2 == [address |-> "p2", apy |-> [tag |-> "num", v |-> 40], fee |-> 3]
ApiP1Again == [id |-> "p1", apy |-> [tag |-> "num", v |-> 50]]

ApiResponses ==
    { [kind |-> "neterr"],
      [kind |-> "badshape"],
      [kind |-> "ok", data |-> << >>],
      [kind |-> "ok", data |-> <<ApiP1>>],
      [kind |-> "ok", data |-> <<ApiP1, ApiP2>>],
      [kind |-> "ok", data |-> <<ApiP1, ApiP1Again>>] }

\* apy of a raw pool, curve.py:28-33
ApiApy(pool) ==
    IF "apy" \notin DOMAIN pool THEN 0
    ELSE IF pool.apy.tag = "dict"
         THEN OrNum(Get(pool.apy.d, "total"), Some(GetDefault(pool.apy.d, "apy", 0)))[1]
         ELSE pool.apy.v

\* the gaugeRewards loop, curve.py:36-41: the first entry whose token is crv
RECURSIVE ApiCrv(_)
ApiCrv(rs) ==
    IF rs = << >> THEN 0
    ELSE IF Lower(GetDefault(Head(rs), "token", "")) = "crv"
         THEN GetDefault(Head(rs), "apy", 0)
         ELSE ApiCrv(Tail(rs))

ApiPool(pool) ==
    [pool_id |-> OrStr(Get(pool, "id"), Get(pool, "address"))[1],
     apy |-> ApiApy(pool),
     bribe |-> OrNum(Get(pool, "bribeApy"), Some(0))[1],
     trading_fee |-> OrNum(Get(pool, "tradingFee"), OrNum(Get(pool, "fee"), Some(0)))[1],
     crv |-> ApiCrv(GetDefault(pool, "gaugeRewards", << >>))]

\* fetch_pool_data(): a failed round trip is swallowed into [], the
\* normalisation loop is outside the try and lets its exception out
fetch_pool_data(resp) ==
    CASE resp.kind = "neterr" ->
            [called |-> TRUE, kind |-> resp.kind, raised |-> FALSE, value |-> << >>]
      [] resp.kind = "badshape" ->
            [called |-> TRUE, kind |-> resp.kind, raised |-> TRUE, value |-> << >>]
      [] OTHER ->
            [called |-> TRUE, kind |-> resp.kind, raised |-> FALSE,
             value |-> [k \in 1..Len(resp.data) |-> ApiPool(resp.data[k])]]

NotCalled == [called |-> FALSE, kind |-> "none", raised |-> FALSE, value |-> << >>]

----------------------------------------------------------------------------
(* Table pool_metrics and the session of the ingestion task *)

\* the PoolMetric object built from one fetched dict, tasks.py:98-105 (and the
\* column values assigned to an existing one, tasks.py:91-94)
PoolMetric(metric, recorded_at) ==
    [pool_id |-> metric.pool_id,
     apy |-> Get(metric, "apy"),
     bribe |-> Get(metric, "bribe"),
     trading_fee |-> Get(metric, "trading_fee"),
     crv_reward |-> Get(metric, "crv_reward"),
     recorded_at |-> recorded_at]

WithId(obj, id) ==
    [id |-> id, pool_id |-> obj.pool_id, apy |-> obj.apy, bribe |-> obj.bribe,
     trading_fee |-> obj.trading_fee, crv_reward |-> obj.crv_reward,
     recorded_at |-> obj.recorded_at]

\* the rows the query of tasks.py:82-89 can return: the session does not
\* autoflush (database.py:11), so it sees the table and not session.new
Existing(metric, recorded_at) ==
    {r \in metrics : r.pool_id = metric.pool_id /\ r.recorded_at = recorded_at}

\* faulty variant of Expired: rows up to one day older than expiry stay
ExpiredOffByOne(expiry) == {r \in metrics : r.recorded_at < expiry - 1}

\* the rows the DELETE of tasks.py:113 removes
Expired(expiry) == {r \in metrics : r.recorded_at < expiry}

\* faulty variant of Committed: the commit writes the new objects and the
\* DELETE but not the modified columns of existing objects
CommittedWithoutUpdates ==
    {r \in metrics : r.id \notin sessDeleted}
    \cup {WithId(sessNew[k], nextId + k - 1) : k \in 1..Len(sessNew)}

\* the table after session.commit() of tasks.py:115: the DELETE, the UPDATEs
\* of the dirty objects and the INSERTs of the new ones become visible at once
Committed ==
    LET kept == {r \in metrics : r.id \notin sessDeleted}
        upd(r) == IF r.id \in DOMAIN sessDirty
                  THEN [r EXCEPT !.apy = sessDirty[r.id].apy,
                                 !.bribe = sessDirty[r.id].bribe,
                                 !.trading_fee = sessDirty[r.id].trading_fee,
                                 !.crv_reward = sessDirty[r.id].crv_reward]
                  ELSE r
    IN {upd(r) : r \in kept}
       \cup {WithId(sessNew[k], nextId + k - 1) : k \in 1..Len(sessNew)}

\* faulty variant of Visible: other sessions read the uncommitted work of the task
VisibleUncommitted == Committed

\* what other sessions see of pool_metrics while the task's transaction is
\* open: the committed table (database.py:10-11, no autocommit)
Visible == metrics

----------------------------------------------------------------------------
(* The task fetch_all_pool_metrics, src/apy/tasks.py:38-124 *)

Unset == None

\* faulty variant of TaskErrorExit: the session is closed without rollback
TaskErrorExitNoRollback == <<"close">>

\* tasks.py:119-124: except: session.rollback(); finally: session.close()
TaskErrorExit == <<"rollback", "close">>

\* services.py:47-53 and the finally of each service function:
\* _handle_service_error rolls the session back, finally closes it
ServiceErrorExit == <<"rollback", "close">>

\* no retry has been asked for
NoCountdowns == [k \in 1..MaxRetries |-> None]

\* no operation has opened a session
NoSessions ==
    sessionLog = [task |-> << >>, deposit |-> [c \in 1..NCallers |-> << >>],
                  history |-> << >>, summary |-> << >>]

\* no reader query ran since the task's last step
NoQuery == << >>

\* no execution of the task is running and none has left anything behind
TaskAtRest ==
    /\ pc = "idle"
    /\ retries = 0
    /\ countdowns = NoCountdowns
    /\ onchainOut = NotCalled
    /\ apiOut = NotCalled
    /\ pool_metrics = << >>
    /\ idx = 0
    /\ now = 0
    /\ sessNew = << >>
    /\ sessDirty = EmptyFn
    /\ sessDeleted = {}
    /\ inserted = 0
    /\ updated = 0
    /\ status = [onchain |-> Unset, api |-> Unset]
    /\ failures = [onchain |-> 0, api |-> 0]
    /\ insertedTotal = 0
    /\ metricsAtStart = {}
    /\ failuresAtStart = [onchain |-> 0, api |-> 0]
    /\ readerView = NoQuery

\* the task before beat has fired
TaskIdle ==
    /\ clock = 0
    /\ retention_days \in {0, RetentionWindow}
    /\ cycle = 0
    /\ TaskAtRest

\* the task idle on the empty table that init_db creates
IngestInit ==
    /\ TaskIdle
    /\ metrics = {}
    /\ nextId = 1

taskLocals == <<pool_metrics, idx, now, sessNew, sessDirty, sessDeleted, inserted, updated>>
store == <<metrics, nextId, insertedTotal>>

\* what a new execution of the task starts from
StartAttempt ==
    /\ pc' = "fetch"
    /\ onchainOut' = NotCalled
    /\ apiOut' = NotCalled
    /\ pool_metrics' = << >>
    /\ idx' = 0
    /\ sessNew' = << >>
    /\ sessDirty' = EmptyFn
    /\ sessDeleted' = {}
    /\ inserted' = 0
    /\ updated' = 0
    /\ failuresAtStart' = failures
    /\ metricsAtStart' = metrics
    /\ now' = 0
    /\ UNCHANGED nonIngestVars
    /\ UNCHANGED <<clock, retention_days, store, status, failures>>
    /\ readerView' = NoQuery
    /\ sessionLog' = [sessionLog EXCEPT !.task = << >>]

\* celery beat sends the task (worker.py:14-19)
Fire ==
    /\ pc \in {"idle", "success", "failure"}
    /\ cycle < MaxCycles
    /\ cycle' = cycle + 1
    /\ retries' = 0
    /\ countdowns' = NoCountdowns
    /\ StartAttempt

\* the task is executed again after self.retry
Retry ==
    /\ pc = "retry"
    /\ UNCHANGED <<cycle, retries, countdowns>>
    /\ StartAttempt

\* faulty variant of ReportFailure: the failure is counted twice
ReportFailureTwice(f, source) == [f EXCEPT ![source] = @ + 2]

\* DATA_SOURCE_FAILURE_COUNTER.labels(source=...).inc(), tasks.py:56 and 62
ReportFailure(f, source) == [f EXCEPT ![source] = @ + 1]

\* faulty variant of PrimaryUsable: the emptiness test of tasks.py:49-50 is missing
PrimaryUsableIgnoresEmpty(out) == ~out.raised

\* tasks.py:48-50: the primary did not raise and its list is not empty
PrimaryUsable(out) == ~out.raised /\ out.value # << >>

\* tasks.py:47-52: the primary returned a non-empty list
FetchPrimary ==
    /\ pc = "fetch"
    /\ \E resp \in OnchainResponses :
          LET out == fetch_onchain_pool_data(resp) IN
          /\ PrimaryUsable(out)
          /\ onchainOut' = out
          /\ pool_metrics' = out.value
    /\ status' = [onchain |-> Some(1), api |-> Some(0)]
    /\ pc' = "begin"
    /\ UNCHANGED nonIngestVars
    /\ UNCHANGED <<clock, retention_days, store, cycle, retries, countdowns, apiOut, idx, now,
                   sessNew, sessDirty, sessDeleted, inserted, updated, failures,
                   metricsAtStart, failuresAtStart>>
    /\ readerView' = NoQuery
    /\ UNCHANGED sessionLog

\* tasks.py:53-62: the primary raised or returned [], the secondary returned
FetchFallback ==
    /\ pc = "fetch"
    /\ \E resp \in OnchainResponses, aresp \in ApiResponses :
          LET out == fetch_onchain_pool_data(resp)
              aout == fetch_pool_data(aresp) IN
          /\ ~PrimaryUsable(out)
          /\ failures.onchain < MaxFailures
          /\ ~aout.raised
          /\ onchainOut' = out
          /\ apiOut' = aout
          /\ pool_metrics' = aout.value
          /\ IF aout.value # << >>
             THEN /\ status' = [onchain |-> Some(0), api |-> Some(1)]
                  /\ failures' = ReportFailure(failures, "onchain")
             ELSE /\ status' = [onchain |-> Some(0), api |-> Some(0)]
                  /\ failures' = ReportFailure(ReportFailure(failures, "onchain"), "api")
    /\ pc' = "begin"
    /\ UNCHANGED nonIngestVars
    /\ UNCHANGED <<clock, retention_days, store, cycle, retries, countdowns, idx, now,
                   sessNew, sessDirty, sessDeleted, inserted, updated,
                   metricsAtStart, failuresAtStart>>
    /\ readerView' = NoQuery
    /\ UNCHANGED sessionLog

\* tasks.py:53-57: the primary raised or returned [], the secondary raised.
\* The exception leaves the except block of 53-62, which no try encloses: the
\* task ends in failure and self.retry is never called
FetchFallbackRaises ==
    /\ pc = "fetch"
    /\ \E resp \in OnchainResponses, aresp \in ApiResponses :
          LET out == fetch_onchain_pool_data(resp)
              aout == fetch_pool_data(aresp) IN
          /\ ~PrimaryUsable(out)
          /\ failures.onchain < MaxFailures
          /\ aout.raised
          /\ onchainOut' = out
          /\ apiOut' = aout
    /\ status' = [status EXCEPT !.onchain = Some(0)]
    /\ failures' = ReportFailure(failures, "onchain")
    /\ pc' = "failure"
    /\ UNCHANGED nonIngestVars
    /\ UNCHANGED <<clock, retention_days, store, cycle, retries, countdowns, taskLocals,
                   metricsAtStart, failuresAtStart>>
    /\ readerView' = NoQuery
    /\ UNCHANGED sessionLog

\* tasks.py:63-77: open the session, (best effort) create the index, reset the
\* counters and read the clock, which has not gone back since it was last read
BeginStore ==
    /\ pc = "begin"
    /\ inserted' = 0
    /\ updated' = 0
    /\ \E t \in clock..MaxTime :
          /\ clock' = t
          /\ now' = t
    /\ idx' = 0
    /\ pc' = IF pool_metrics = << >> THEN "sweep" ELSE "upsert"
    /\ UNCHANGED nonIngestVars
    /\ UNCHANGED <<retention_days, store, cycle, retries, countdowns, onchainOut, apiOut,
                   pool_metrics, sessNew, sessDirty, sessDeleted, status, failures,
                   metricsAtStart, failuresAtStart>>
    /\ readerView' = NoQuery
    /\ sessionLog' = [sessionLog EXCEPT !.task = <<"open">>]

\* tasks.py:79-107: one iteration of the loop over pool_metrics
UpsertStep ==
    /\ pc = "upsert"
    /\ LET metric == pool_metrics[idx + 1]
           recorded_at == GetDefault(metric, "recorded_at", now)
           obj == PoolMetric(metric, recorded_at)
       IN IF Existing(metric, recorded_at) # {}
          THEN /\ \E existing \in Existing(metric, recorded_at) :
                     sessDirty' = (existing.id :> [apy |-> obj.apy,
                                                   bribe |-> obj.bribe,
                                                   trading_fee |-> obj.trading_fee,
                                                   crv_reward |-> obj.crv_reward])
                                  @@ sessDirty
               /\ updated' = updated + 1
               /\ UNCHANGED <<sessNew, inserted>>
          ELSE /\ sessNew' = Append(sessNew, obj)
               /\ inserted' = inserted + 1
               /\ UNCHANGED <<sessDirty, updated>>
    /\ idx' = idx + 1
    /\ pc' = IF idx + 1 = Len(pool_metrics) THEN "sweep" ELSE "upsert"
    /\ UNCHANGED nonIngestVars
    /\ UNCHANGED <<clock, retention_days, store, cycle, retries, countdowns, onchainOut, apiOut,
                   pool_metrics, now, sessDeleted, status, failures,
                   metricsAtStart, failuresAtStart>>
    /\ readerView' = NoQuery
    /\ UNCHANGED sessionLog

\* faulty variant of PendingAfterSweep: the session flushes before the DELETE,
\* which then removes the new rows older than expiry
PendingAfterSweepFlushed(new, expiry) ==
    SelectSeq(new, LAMBDA obj : obj.recorded_at >= expiry)

\* session.new after the DELETE of tasks.py:113: the session does not
\* autoflush (database.py:11), the new objects are not in the table when the
\* DELETE runs and stay pending
PendingAfterSweep(new, expiry) == new

\* tasks.py:110-113: the retention sweep, a bulk DELETE inside the transaction;
\* the matched objects leave the session (synchronize_session), the pending
\* new ones are not in the table yet and are not matched
Sweep ==
    /\ pc = "sweep"
    /\ IF retention_days > 0
       THEN LET expiry == now - retention_days
                gone == {r.id : r \in Expired(expiry)}
            IN /\ sessDeleted' = gone
               /\ sessDirty' = [id \in DOMAIN sessDirty \ gone |-> sessDirty[id]]
               /\ sessNew' = PendingAfterSweep(sessNew, expiry)
       ELSE UNCHANGED <<sessDeleted, sessDirty, sessNew>>
    /\ pc' = "commit"
    /\ UNCHANGED nonIngestVars
    /\ UNCHANGED <<clock, retention_days, store, cycle, retries, countdowns, onchainOut, apiOut,
                   pool_metrics, idx, now, inserted, updated, status, failures,
                   metricsAtStart, failuresAtStart>>
    /\ readerView' = NoQuery
    /\ UNCHANGED sessionLog

\* faulty variant of PositionAfterCommit: the commit empties user_positions
PositionAfterCommitCleared(p) == None

\* what the task's commit does to the user_positions row: the session holds
\* PoolMetric objects and a DELETE on pool_metrics only (tasks.py:82-113)
PositionAfterCommit(p) == p

\* tasks.py:115-118: commit, count, return inserted
Commit ==
    /\ pc = "commit"
    /\ metrics' = Committed
    /\ nextId' = nextId + Len(sessNew)
    /\ insertedTotal' = insertedTotal + inserted
    /\ sessNew' = << >>
    /\ sessDirty' = EmptyFn
    /\ sessDeleted' = {}
    /\ pc' = "success"
    /\ position' = PositionAfterCommit(position)
    /\ UNCHANGED <<position0, dpc, seen, amount, dres, beatVars, historyVars, earningVars>>
    /\ UNCHANGED <<clock, retention_days, cycle, retries, countdowns, onchainOut, apiOut,
                   pool_metrics, idx, now, inserted, updated, status, failures,
                   metricsAtStart, failuresAtStart>>
    /\ readerView' = NoQuery
    /\ sessionLog' = [sessionLog EXCEPT !.task = @ \o <<"commit", "close">>]

\* faulty variant of RetriesOfRetry: the retry is sent with the same count
RetriesNotCounted(r) == r

\* tasks.py:38
default_retry_delay == 60

\* self.retry(exc=exc), tasks.py:122, gives neither countdown nor eta: celery
\* delays the retry by the task's default_retry_delay, whatever
\* request.retries is
RetryCountdown(r) == default_retry_delay

\* self.retry, tasks.py:122: the task is sent again with request.retries + 1
RetriesOfRetry(r) == r + 1

\* tasks.py:119-124: a statement of the try block (a query of the loop, the
\* DELETE, the commit) raised: roll back, then self.retry, which re-sends the
\* task while request.retries < max_retries and re-raises otherwise
StoreError ==
    /\ pc \in {"upsert", "sweep", "commit"}
    /\ sessNew' = << >>
    /\ sessDirty' = EmptyFn
    /\ sessDeleted' = {}
    /\ IF retries < MaxRetries
       THEN /\ retries' = RetriesOfRetry(retries)
            /\ countdowns' = [countdowns EXCEPT ![retries + 1] = Some(RetryCountdown(retries))]
            /\ pc' = "retry"
       ELSE /\ pc' = "failure"
            /\ UNCHANGED <<retries, countdowns>>
    /\ UNCHANGED nonIngestVars
    /\ UNCHANGED <<clock, retention_days, store, cycle, onchainOut, apiOut,
                   pool_metrics, idx, now, inserted, updated, status, failures,
                   metricsAtStart, failuresAtStart>>
    /\ readerView' = NoQuery
    /\ sessionLog' = [sessionLog EXCEPT !.task = @ \o TaskErrorExit]

\* tasks.py:115-122: an exception after the transaction was committed: the
\* commit call raises although the database has committed (the connection
\* breaks before the acknowledgement arrives), or METRIC_INSERT_COUNTER.inc
\* or logger.info raises (tasks.py:116-117 are inside the try).  The rows are
\* stored, the counter is not increased, the rollback has nothing to undo
\* and self.retry is raised as for any other exception of the try block
CommitThenRaise ==
    /\ pc = "commit"
    /\ metrics' = Committed
    /\ nextId' = nextId + Len(sessNew)
    /\ sessNew' = << >>
    /\ sessDirty' = EmptyFn
    /\ sessDeleted' = {}
    /\ IF retries < MaxRetries
       THEN /\ retries' = RetriesOfRetry(retries)
            /\ countdowns' = [countdowns EXCEPT ![retries + 1] = Some(RetryCountdown(retries))]
            /\ pc' = "retry"
       ELSE /\ pc' = "failure"
            /\ UNCHANGED <<retries, countdowns>>
    /\ position' = PositionAfterCommit(position)
    /\ UNCHANGED <<position0, dpc, seen, amount, dres, beatVars, historyVars, earningVars>>
    /\ UNCHANGED <<clock, retention_days, insertedTotal, cycle, onchainOut, apiOut,
                   pool_metrics, idx, now, inserted, updated, status, failures,
                   metricsAtStart, failuresAtStart>>
    /\ readerView' = NoQuery
    /\ sessionLog' = [sessionLog EXCEPT !.task = @ \o <<"commit">> \o TaskErrorExit]

\* a query on pool_metrics by a request-side session (services.py:61, 79-85,
\* 143-148, 154-159, 208-223).  readerView keeps the rows it returned and
\* (history) whether the task's transaction was open at that moment
Read ==
    /\ readerView' = <<[rows |-> Visible, open |-> pc \in {"upsert", "sweep", "commit"}]>>
    /\ UNCHANGED nonIngestVars
    /\ UNCHANGED <<clock, retention_days, store, cycle, pc, retries, countdowns, onchainOut, apiOut,
                   taskLocals, status, failures, metricsAtStart, failuresAtStart>>
    /\ UNCHANGED sessionLog

\* Samples that carry their own recorded_at, which tasks.py:80-81 accepts
\* from a provider ("allow incoming data to provide its own timestamp");
\* the two providers of this repository never set the key.
StampedSample(pool_id, t) ==
    [pool_id |-> pool_id, apy |-> 15, bribe |-> 5, trading_fee |-> 1,
     crv_reward |-> 10, recorded_at |-> t]

UnstampedSample == [pool_id |-> "p2", apy |-> 20, bribe |-> 0, trading_fee |-> 0,
                    crv_reward |-> 20]

StampedBatches ==
    {<<StampedSample("p1", t)>> : t \in 0..MaxTime}
    \cup {<<StampedSample("p1", t), UnstampedSample>> : t \in 0..MaxTime}

\* tasks.py:47-52 with a primary provider that stamps its samples
FetchStamped ==
    /\ pc = "fetch"
    /\ \E batch \in StampedBatches :
          /\ onchainOut' = [called |-> TRUE, kind |-> "ok", raised |-> FALSE,
                            value |-> batch]
          /\ pool_metrics' = batch
    /\ status' = [onchain |-> Some(1), api |-> Some(0)]
    /\ pc' = "begin"
    /\ UNCHANGED nonIngestVars
    /\ UNCHANGED <<clock, retention_days, store, cycle, retries, countdowns, apiOut, idx, now,
                   sessNew, sessDirty, sessDeleted, inserted, updated, failures,
                   metricsAtStart, failuresAtStart>>
    /\ readerView' = NoQuery
    /\ UNCHANGED sessionLog

IngestNext ==
    \/ Fire
    \/ Retry
    \/ FetchPrimary
    \/ FetchFallback
    \/ FetchFallbackRaises
    \/ BeginStore
    \/ UpsertStep
    \/ Sweep
    \/ Commit
    \/ StoreError

----------------------------------------------------------------------------
(* calculate_compound_apy, src/apy/apy_calc.py:4-27.  A float is modelled   *)
(* by the exact value it stands for, a fraction <<numerator, denominator>>  *)
(* in lowest terms with a positive denominator; rounding is left out.       *)

\* longest sequence of returns
MaxLen == 3

Abs(n) == IF n < 0 THEN -n ELSE n

RECURSIVE Gcd(_, _)
Gcd(a, b) == IF b = 0 THEN a ELSE Gcd(b, a % b)

\* the value n / d, d > 0
Frac(n, d) == LET g == Gcd(Abs(n), d) IN <<n \div g, d \div g>>

\* the float of an integer
Float(n) == <<n, 1>>

Add(a, b) == Frac(a[1] * b[2] + b[1] * a[2], a[2] * b[2])

Sub(a, b) == Add(a, <<-b[1], b[2]>>)

Mul(a, b) ==
    LET x == Frac(a[1], b[2])
        y == Frac(b[1], a[2])
    IN <<x[1] * y[1], x[2] * y[2]>>

\* the returns a call can be given: percentages, None for a missing value
ReturnValues == {None, Some(Float(10)), Some(Float(-10)), Some(Float(-5)), Some(Float(0))}

RECURSIVE SeqsUpTo(_, _)
SeqsUpTo(S, n) ==
    IF n = 0 THEN {<< >>}
    ELSE LET shorter == SeqsUpTo(S, n - 1)
         IN shorter \cup {Append(q, x) : q \in {t \in shorter : Len(t) = n - 1}, x \in S}

\* faulty variant of Compounded: the returns are added up
CompoundedBySum(total, r) == Add(total, Mul(r, Frac(1, 100)))

\* apy_calc.py:24: total *= 1 + r / 100
Compounded(total, r) == Mul(total, Add(Float(1), Mul(r, Frac(1, 100))))

\* apy_calc.py:18-24: the loop over the returns, from entry i on
RECURSIVE CompoundLoop(_, _, _, _)
CompoundLoop(rs, i, total, has_data) ==
    IF i > Len(rs) THEN [total |-> total, has_data |-> has_data]
    ELSE IF rs[i] = None THEN CompoundLoop(rs, i + 1, total, has_data)
    ELSE CompoundLoop(rs, i + 1, Compounded(total, rs[i][1]), TRUE)

\* apy_calc.py:4-27
calculate_compound_apy(rs) ==
    LET end == CompoundLoop(rs, 1, Float(1), FALSE)
    IN IF ~end.has_data THEN Float(0)
       ELSE Mul(Sub(end.total, Float(1)), Float(100))

\* no call is made
CompoundIdle ==
    /\ returns = << >>
    /\ compound_apy = None

\* a call with any sequence of returns
CompoundInit ==
    /\ returns \in SeqsUpTo(ReturnValues, MaxLen)
    /\ compound_apy = None

\* the call returns
Compound ==
    /\ compound_apy = None
    /\ compound_apy' = Some(calculate_compound_apy(returns))
    /\ UNCHANGED <<user_positions, sargs, summary, returns>>
    /\ UNCHANGED nonEarningVars
    /\ UNCHANGED sessionLog

CompoundNext == Compound

\* order_by(PoolMetric.recorded_at).all(), services.py:85: the rows in
\* ascending recorded_at; rows with equal recorded_at come in any order
RECURSIVE OrderByRecordedAt(_)
OrderByRecordedAt(rows) ==
    IF rows = {} THEN {<< >>}
    ELSE UNION {{<<r>> \o rest : rest \in OrderByRecordedAt(rows \ {r})} :
                  r \in {x \in rows : \A y \in rows : x.recorded_at <= y.recorded_at}}

\* the user and the pool of the calculate_total_earning calls
DepositUser == "u1"

DepositPool == "p1"

\* services.py:149, 214: the apy values that are not None, as floats
ApySeries(rows) ==
    LET kept == SelectSeq(rows, LAMBDA r : r.apy # None)
    IN [i \in 1..Len(kept) |-> Some(Float(kept[i].apy[1]))]

\* services.py:154-160, 218-224: the apy of the latest sample of the pool,
\* 0.0 when the pool has no sample or the latest has no apy; among samples
\* with the same recorded_at the database picks one
CurrentApr(pool_id) ==
    LET rows == {r \in Visible : r.pool_id = pool_id}
        latest == {r \in rows : \A y \in rows : y.recorded_at <= r.recorded_at}
    IN IF rows = {} THEN {Float(0)}
       ELSE {IF r.apy # None THEN Float(r.apy[1]) ELSE Float(0) : r \in latest}

----------------------------------------------------------------------------
(* calculate_total_earning, src/apy/services.py:95-179, called concurrently *)
(* for one (user_id, pool_id)                                              *)

Callers == 1..NCallers

\* the position rows the calls can start from: no row, or a row with an amount
PriorPositions == {None} \cup {Some(a) : a \in 1..MaxAmount}

DepositInit ==
    /\ position \in PriorPositions
    /\ position0 = position
    /\ dpc = [c \in Callers |-> "idle"]
    /\ seen = [c \in Callers |-> None]
    /\ dres = [c \in Callers |-> None]
    /\ amount \in [Callers -> 1..MaxAmount]

\* calls made by any caller of the function: api.py:325-329 restricts the
\* amount of an HTTP request to > 0, the function itself takes any float
DirectCallInit ==
    /\ position \in PriorPositions
    /\ position0 = position
    /\ dpc = [c \in Callers |-> "idle"]
    /\ seen = [c \in Callers |-> None]
    /\ dres = [c \in Callers |-> None]
    /\ amount \in [Callers -> (-1)..MaxAmount]

\* no call is made
DepositIdle ==
    /\ position = None
    /\ position0 = None
    /\ dpc = [c \in Callers |-> "idle"]
    /\ seen = [c \in Callers |-> None]
    /\ dres = [c \in Callers |-> None]
    /\ amount = [c \in Callers |-> 1]

\* services.py:115-125: open a session and read the position row (a plain
\* SELECT: no FOR UPDATE, no version column)
DepositRead(c) ==
    /\ dpc[c] = "idle"
    /\ seen' = [seen EXCEPT ![c] = position]
    /\ dpc' = [dpc EXCEPT ![c] = "loaded"]
    /\ UNCHANGED <<position, position0, amount, dres>>
    /\ UNCHANGED nonDepositVars
    /\ sessionLog' = [sessionLog EXCEPT !.deposit[c] = <<"open">>]

\* faulty variant of NewAmount: the deposit replaces the amount
NewAmountOverwrites(old, a) == a

\* the amount the flush writes for a row that was read, services.py:128:
\* the sum is computed in Python from the value read
NewAmount(old, a) == old + a

\* services.py:127-138: add to the row that was read, or insert a new row,
\* and commit
DepositCommit(c) ==
    /\ dpc[c] = "loaded"
    /\ IF seen[c] # None
       THEN position' = Some(NewAmount(seen[c][1], amount[c]))
       ELSE /\ position = None
            /\ position' = Some(amount[c])
    /\ dpc' = [dpc EXCEPT ![c] = "committed"]
    /\ UNCHANGED <<position0, seen, amount, dres>>
    /\ UNCHANGED nonDepositVars
    /\ sessionLog' = [sessionLog EXCEPT !.deposit[c] = @ \o <<"commit">>]

\* services.py:138, 176-179: the commit raises (the INSERT hits the primary
\* key of a row another call inserted meanwhile, or the database fails): the
\* session is rolled back and HTTP 500 is raised
DepositCommitFails(c) ==
    /\ dpc[c] = "loaded"
    /\ dpc' = [dpc EXCEPT ![c] = "error"]
    /\ UNCHANGED <<position, position0, seen, amount, dres>>
    /\ UNCHANGED nonDepositVars
    /\ sessionLog' = [sessionLog EXCEPT !.deposit[c] = @ \o ServiceErrorExit]

\* services.py:140-175: read the amount (the commit expired the object, so
\* the attribute is loaded again) and the pool's history, return the result
DepositReturn(c) ==
    /\ dpc[c] = "committed"
    /\ position # None
    /\ \E rows \in OrderByRecordedAt({r \in Visible : r.pool_id = DepositPool}) :
       \E current_apr \in CurrentApr(DepositPool) :
          LET total_amount == Float(position[1])
              compounded_apy == calculate_compound_apy(ApySeries(rows))
              projected_earning == Mul(total_amount, Mul(compounded_apy, Frac(1, 100)))
          IN dres' = [dres EXCEPT ![c] =
                        Some([user_id |-> DepositUser, pool_id |-> DepositPool,
                              total_amount |-> total_amount,
                              projected_earning |-> projected_earning,
                              current_apr |-> current_apr])]
    /\ dpc' = [dpc EXCEPT ![c] = "ok"]
    /\ UNCHANGED <<position, position0, seen, amount>>
    /\ UNCHANGED nonDepositVars
    /\ sessionLog' = [sessionLog EXCEPT !.deposit[c] = @ \o <<"close">>]

\* services.py:140-160, 176-179: a query after the commit raises (the refresh
\* of position.amount, the history query, the latest-sample query): the
\* rollback has nothing left to undo and HTTP 500 is raised
DepositHistoryFails(c) ==
    /\ dpc[c] = "committed"
    /\ dpc' = [dpc EXCEPT ![c] = "error"]
    /\ UNCHANGED <<position, position0, seen, amount, dres>>
    /\ UNCHANGED nonDepositVars
    /\ sessionLog' = [sessionLog EXCEPT !.deposit[c] = @ \o ServiceErrorExit]

DepositNext ==
    \E c \in Callers :
        \/ DepositRead(c)
        \/ DepositCommit(c)
        \/ DepositCommitFails(c)
        \/ DepositReturn(c)
        \/ DepositHistoryFails(c)

----------------------------------------------------------------------------
(* Scheduling of the task: celery beat, the broker and the worker           *)
(* processes (src/apy/worker.py:8-19, src/apy/tasks.py:38).  The body of an *)
(* execution is abstracted to the three ways it can end.  The model of the  *)
(* task above is the case of one worker process that takes a firing up when *)
(* the execution before it has ended.                                       *)

Firings == 1..MaxCycles

BeatInit ==
    /\ fired = 0
    /\ broker = {}
    /\ executing = {}
    /\ outcome = [f \in Firings |-> "none"]

\* worker.py:14-19: beat sends the task every schedule_frequency seconds; the
\* entry has no options (no expires, no lock) and beat does not look at the
\* executions of earlier firings
BeatSend ==
    /\ fired < MaxCycles
    /\ fired' = fired + 1
    /\ broker' = broker \cup {[firing |-> fired + 1, retries |-> 0]}
    /\ UNCHANGED <<executing, outcome>>
    /\ UNCHANGED nonBeatVars

\* a free worker process takes a message and calls the task, tasks.py:38-39;
\* the task takes no lock and does not look for other executions
WorkerReceive ==
    /\ Cardinality(executing) < WorkerProcesses
    /\ \E m \in broker :
          /\ broker' = broker \ {m}
          /\ executing' = executing \cup {m}
    /\ UNCHANGED <<fired, outcome>>
    /\ UNCHANGED nonBeatVars

\* tasks.py:115-118: the execution commits and returns
ExecutionReturns ==
    /\ \E m \in executing :
          /\ executing' = executing \ {m}
          /\ outcome' = [outcome EXCEPT ![m.firing] = "success"]
    /\ UNCHANGED <<fired, broker>>
    /\ UNCHANGED nonBeatVars

\* tasks.py:119-122 while request.retries < max_retries: self.retry sends the
\* task again, with retries + 1 and a countdown of default_retry_delay
ExecutionRetries ==
    /\ \E m \in executing :
          /\ m.retries < MaxRetries
          /\ executing' = executing \ {m}
          /\ broker' = broker \cup {[m EXCEPT !.retries = @ + 1]}
    /\ UNCHANGED <<fired, outcome>>
    /\ UNCHANGED nonBeatVars

\* faulty variant of AfterFailure: the failed firing is put back on the queue
AfterFailureRequeues(b, m) == b \cup {[firing |-> m.firing, retries |-> 0]}

\* the broker after an execution ended in failure: self.retry re-raises
\* (tasks.py:122) or the exception leaves the task (tasks.py:57), and nothing
\* is sent
AfterFailure(b, m) == b

\* tasks.py:119-122 with request.retries = max_retries: self.retry raises
\* instead of sending, the firing has failed
ExecutionExhausted ==
    /\ \E m \in executing :
          /\ m.retries = MaxRetries
          /\ executing' = executing \ {m}
          /\ broker' = AfterFailure(broker, m)
          /\ outcome' = [outcome EXCEPT ![m.firing] = "exhausted"]
    /\ UNCHANGED fired
    /\ UNCHANGED nonBeatVars

\* tasks.py:57: the secondary provider raises outside the try of 74-124, the
\* firing has failed without a retry
ExecutionRaises ==
    /\ \E m \in executing :
          /\ executing' = executing \ {m}
          /\ broker' = AfterFailure(broker, m)
          /\ outcome' = [outcome EXCEPT ![m.firing] = "raised"]
    /\ UNCHANGED fired
    /\ UNCHANGED nonBeatVars

BeatNext ==
    \/ BeatSend
    \/ WorkerReceive
    \/ ExecutionReturns
    \/ ExecutionRetries
    \/ ExecutionExhausted
    \/ ExecutionRaises

----------------------------------------------------------------------------
(* get_pool_apy_history, src/apy/services.py:69-92 *)

\* no call is made
HistoryIdle ==
    /\ hargs = None
    /\ hout = None

\* the pools asked for; no sample of "p3" is ever stored
HistoryPools == {"p1", "p2", "p3"}

\* the optional bounds start and end
HistoryBounds == {None} \cup {Some(t) : t \in 0..MaxTime}

\* rows the ingestion task can have stored: samples of two pools, two of
\* them with the same (pool_id, recorded_at)
HistoryRow(id, pool_id, t, apy) ==
    [id |-> id, pool_id |-> pool_id, apy |-> Some(apy), bribe |-> Some(0),
     trading_fee |-> Some(0), crv_reward |-> None, recorded_at |-> t]

HistoryRows ==
    {HistoryRow(1, "p1", 0, 30), HistoryRow(2, "p2", 1, 40),
     HistoryRow(3, "p1", 1, 30), HistoryRow(4, "p1", 1, 50),
     HistoryRow(5, "p1", MaxTime, 30)}

\* a call of get_pool_apy_history on a table the task has filled
HistoryInit ==
    /\ metrics \in SUBSET HistoryRows
    /\ nextId = 6
    /\ hargs \in {Some([pool_id |-> p, start |-> s, end |-> e]) :
                    p \in HistoryPools, s \in HistoryBounds, e \in HistoryBounds}
    /\ hout = None

\* faulty variant of InHistoryRange: the end bound is exclusive
InHistoryRangeOpenEnd(r, pool_id, start, end) ==
    /\ r.pool_id = pool_id
    /\ start # None => r.recorded_at >= start[1]
    /\ end # None => r.recorded_at < end[1]

\* the filters of services.py:79-83; a datetime is always truthy, so a bound
\* restricts exactly when it is not None
InHistoryRange(r, pool_id, start, end) ==
    /\ r.pool_id = pool_id
    /\ start # None => r.recorded_at >= start[1]
    /\ end # None => r.recorded_at <= end[1]

\* str(exc) of a fastapi HTTPException, services.py:53: "<status>: <detail>"
\* with the starlette versions that define __str__, "" with those that do not
StrOfHTTPException(status_code, detail) ==
    {"", IF status_code = 404 THEN "404: Pool not found"
         ELSE "400: start must be before end"}

\* _handle_service_error, services.py:47-53: the statuses and details it can
\* raise for the exception the try block raised
HandleServiceError(exc) ==
    IF exc.type = "SQLAlchemyError"
    THEN {[status_code |-> 500, detail |-> "Database error"]}
    ELSE {[status_code |-> 400, detail |-> d] :
             d \in StrOfHTTPException(exc.status_code, exc.detail)}

\* services.py:74-92 when the query works: the HTTPException raised at lines
\* 77 and 87 is an Exception, so the except clause of line 89 catches it and
\* hands it to _handle_service_error
HistoryQuery ==
    /\ hargs # None
    /\ hout = None
    /\ LET pool_id == hargs[1].pool_id
           start == hargs[1].start
           end == hargs[1].end
           found == {r \in Visible : InHistoryRange(r, pool_id, start, end)}
       IN IF start # None /\ end # None /\ start[1] > end[1]
          THEN \E e \in HandleServiceError([type |-> "HTTPException", status_code |-> 400,
                                            detail |-> "start must be before end"]) :
                  hout' = Some([raised |-> "HTTPException", status_code |-> e.status_code,
                                detail |-> e.detail, rows |-> << >>])
          ELSE IF found = {}
          THEN \E e \in HandleServiceError([type |-> "HTTPException", status_code |-> 404,
                                            detail |-> "Pool not found"]) :
                  hout' = Some([raised |-> "HTTPException", status_code |-> e.status_code,
                                detail |-> e.detail, rows |-> << >>])
          ELSE \E rows \in OrderByRecordedAt(found) :
                  hout' = Some([raised |-> "none", status_code |-> 200,
                                detail |-> "", rows |-> rows])
    /\ UNCHANGED hargs
    /\ UNCHANGED nonHistoryVars
    /\ sessionLog' = [sessionLog EXCEPT !.history =
                        IF hout'[1].raised = "none" THEN <<"open", "close">>
                        ELSE <<"open">> \o ServiceErrorExit]

\* services.py:85, 89-90: the query raises (the database fails)
HistoryQueryFails ==
    /\ hargs # None
    /\ hout = None
    /\ ~(hargs[1].start # None /\ hargs[1].end # None /\ hargs[1].start[1] > hargs[1].end[1])
    /\ \E e \in HandleServiceError([type |-> "SQLAlchemyError"]) :
          hout' = Some([raised |-> "SQLAlchemyError", status_code |-> e.status_code,
                        detail |-> e.detail, rows |-> << >>])
    /\ UNCHANGED hargs
    /\ UNCHANGED nonHistoryVars
    /\ sessionLog' = [sessionLog EXCEPT !.history = <<"open">> \o ServiceErrorExit]

HistoryNext ==
    \/ HistoryQuery
    \/ HistoryQueryFails

----------------------------------------------------------------------------
(* get_user_positions, src/apy/services.py:182-246 *)

\* the users asked for; "u3" has no position
SummaryUsers == {"u1", "u2", "u3"}

\* rows of user_positions besides the row (DepositUser, DepositPool)
OtherPositions ==
    {[user_id |-> "u1", pool_id |-> "p2", amount |-> 1],
     [user_id |-> "u1", pool_id |-> "p3", amount |-> MaxAmount],
     [user_id |-> "u2", pool_id |-> "p2", amount |-> 1]}

\* the table user_positions
UserPosition ==
    user_positions \cup
    (IF position = None THEN {}
     ELSE {[user_id |-> DepositUser, pool_id |-> DepositPool, amount |-> position[1]]})

\* a sample of a pool with an apy that can be missing
EarningRow(id, pool_id, t, apy) ==
    [id |-> id, pool_id |-> pool_id, apy |-> apy, bribe |-> Some(0),
     trading_fee |-> Some(0), crv_reward |-> None, recorded_at |-> t]

\* samples the ingestion task can have stored: no sample of "p3"
EarningRows ==
    {EarningRow(1, "p1", 0, Some(10)), EarningRow(2, "p1", 1, Some(10)),
     EarningRow(3, "p1", 1, None), EarningRow(4, "p2", 0, Some(-10)),
     EarningRow(5, "p2", 1, Some(-5))}

\* query(...).all() without order_by, services.py:197-201: any order
RECURSIVE AnyOrder(_)
AnyOrder(rows) ==
    IF rows = {} THEN {<< >>}
    ELSE UNION {{<<r>> \o rest : rest \in AnyOrder(rows \ {r})} : r \in rows}

\* what the queries of services.py:208-213 can return for each pool
ApyHistories(pools) ==
    {h \in [pools -> UNION {OrderByRecordedAt({r \in Visible : r.pool_id = p}) : p \in pools}] :
        \A p \in pools : h[p] \in OrderByRecordedAt({r \in Visible : r.pool_id = p})}

\* what the queries of services.py:218-224 can give for each pool
CurrentAprs(pools) ==
    {a \in [pools -> UNION {CurrentApr(p) : p \in pools}] :
        \A p \in pools : a[p] \in CurrentApr(p)}

\* faulty variant of Accumulate: the total is the last value
AccumulateLast(total, x) == x

\* services.py:234-235: total_amount += pos.amount, total_earning += projected
Accumulate(total, x) == Add(total, x)

\* services.py:203-235: the loop over the positions, from position i on
RECURSIVE PositionsLoop(_, _, _, _, _)
PositionsLoop(positions, i, hist, apr, acc) ==
    IF i > Len(positions) THEN acc
    ELSE LET pos == positions[i]
             compounded_apy == calculate_compound_apy(ApySeries(hist[pos.pool_id]))
             projected == Mul(Float(pos.amount), Mul(compounded_apy, Frac(1, 100)))
             item == [pool_id |-> pos.pool_id, amount |-> Float(pos.amount),
                      projected_earning |-> projected, current_apr |-> apr[pos.pool_id]]
         IN PositionsLoop(positions, i + 1, hist, apr,
                [items |-> Append(acc.items, item),
                 total_amount |-> Accumulate(acc.total_amount, Float(pos.amount)),
                 total_earning |-> Accumulate(acc.total_earning, projected)])

\* no call is made
SummaryIdle ==
    /\ user_positions = {}
    /\ sargs = None
    /\ summary = None

\* a call of get_user_positions on tables the deposits and the task filled
SummaryInit ==
    /\ user_positions \in SUBSET OtherPositions
    /\ sargs \in {Some(u) : u \in SummaryUsers}
    /\ summary = None

\* services.py:195-242: what the call can return when the queries work
SummaryResults ==
    LET mine == {r \in UserPosition : r.user_id = sargs[1]}
        pools == {r.pool_id : r \in mine}
        Result(positions, hist, apr) ==
            LET end == PositionsLoop(positions, 1, hist, apr,
                           [items |-> << >>, total_amount |-> Float(0),
                            total_earning |-> Float(0)])
            IN [raised |-> "none", status_code |-> 200,
                user_id |-> sargs[1],
                total_amount |-> end.total_amount,
                total_projected_earning |-> end.total_earning,
                positions |-> end.items]
    IN {Result(positions, hist, apr) :
           positions \in AnyOrder(mine), hist \in ApyHistories(pools),
           apr \in CurrentAprs(pools)}

\* services.py:195-242 when the queries work
GetUserPositions ==
    /\ sargs # None
    /\ summary = None
    /\ \E result \in SummaryResults : summary' = Some(result)
    /\ UNCHANGED <<user_positions, sargs, returns, compound_apy>>
    /\ UNCHANGED nonEarningVars
    /\ sessionLog' = [sessionLog EXCEPT !.summary = <<"open", "close">>]

\* services.py:243-244: a query raises (the database fails)
GetUserPositionsFails ==
    /\ sargs # None
    /\ summary = None
    /\ \E e \in HandleServiceError([type |-> "SQLAlchemyError"]) :
          summary' = Some([raised |-> "SQLAlchemyError", status_code |-> e.status_code,
                           user_id |-> sargs[1], total_amount |-> Float(0),
                           total_projected_earning |-> Float(0), positions |-> << >>])
    /\ UNCHANGED <<user_positions, sargs, returns, compound_apy>>
    /\ UNCHANGED nonEarningVars
    /\ sessionLog' = [sessionLog EXCEPT !.summary = <<"open">> \o ServiceErrorExit]

SummaryNext ==
    \/ GetUserPositions
    \/ GetUserPositionsFails

\* no call of get_user_positions or calculate_compound_apy is made
EarningIdle == SummaryIdle /\ CompoundIdle

----------------------------------------------------------------------------
(* Specifications *)

\* the ingestion task alone
Init == IngestInit /\ DepositIdle /\ BeatInit /\ HistoryIdle /\ EarningIdle /\ NoSessions

Next == IngestNext

Spec == Init /\ [][Next]_vars

\* a step of the execution that is running or awaiting its retry
ExecutionStep ==
    \/ Retry
    \/ FetchPrimary
    \/ FetchFallback
    \/ FetchFallbackRaises
    \/ BeginStore
    \/ UpsertStep
    \/ Sweep
    \/ Commit
    \/ StoreError

\* tables an earlier firing can have left: none, one or both of a sample of
\* the primary and a sample of the secondary, stored on day 0
TablesLeft ==
    SUBSET {WithId(PoolMetric(OnchainPool(OnchainP1), 0), 1),
            WithId(PoolMetric(ApiPool(ApiP2), 0), 2)}

\* the task at rest before its last firing, on a table earlier firings left
InitLastFiring ==
    /\ clock = 0
    /\ retention_days \in {0, RetentionWindow}
    /\ cycle = MaxCycles - 1
    /\ TaskAtRest
    /\ metrics \in TablesLeft
    /\ nextId = 3
    /\ DepositIdle
    /\ BeatInit
    /\ HistoryIdle
    /\ EarningIdle
    /\ NoSessions

\* one firing of the ingestion task when every call of an execution returns
\* or raises in finite time and the worker takes up the retries it is sent
SpecLive == InitLastFiring /\ [][Next]_vars /\ WF_vars(ExecutionStep)

\* one firing of the ingestion task in which an exception can also be raised
\* after the transaction was committed
NextAfterCommit ==
    \/ IngestNext
    \/ CommitThenRaise

SpecAfterCommit == InitLastFiring /\ [][NextAfterCommit]_vars

\* the ingestion task fed by a provider that stamps its samples
NextStamped ==
    \/ Fire
    \/ Retry
    \/ FetchStamped
    \/ BeginStore
    \/ UpsertStep
    \/ Sweep
    \/ Commit
    \/ StoreError

SpecStamped == Init /\ [][NextStamped]_vars

\* the ingestion task together with request-side readers of pool_metrics
NextReaders == IngestNext \/ Read

SpecReaders == Init /\ [][NextReaders]_vars

\* concurrent deposit calls, no ingestion running
InitDeposit ==
    /\ IngestInit
    /\ retention_days = RetentionWindow
    /\ DepositInit
    /\ BeatInit
    /\ HistoryIdle
    /\ EarningIdle
    /\ NoSessions

SpecDeposit == InitDeposit /\ [][DepositNext]_vars

\* calls of calculate_total_earning made directly, with any amount
InitDirect ==
    /\ IngestInit
    /\ retention_days = RetentionWindow
    /\ DirectCallInit
    /\ BeatInit
    /\ HistoryIdle
    /\ EarningIdle
    /\ NoSessions

SpecDirect == InitDirect /\ [][DepositNext]_vars

\* one call of get_pool_apy_history, no ingestion running
InitHistory ==
    /\ TaskIdle
    /\ retention_days = RetentionWindow
    /\ HistoryInit
    /\ DepositIdle
    /\ BeatInit
    /\ EarningIdle
    /\ NoSessions

SpecHistory == InitHistory /\ [][HistoryNext]_vars

\* one call of calculate_compound_apy
InitCompound ==
    /\ IngestInit
    /\ retention_days = RetentionWindow
    /\ DepositIdle
    /\ BeatInit
    /\ HistoryIdle
    /\ SummaryIdle
    /\ CompoundInit
    /\ NoSessions

SpecCompound == InitCompound /\ [][CompoundNext]_vars

\* deposit calls on a pool with any history of samples, beside the samples
\* of another pool; no ingestion running
InitEarning ==
    /\ TaskIdle
    /\ retention_days = RetentionWindow
    /\ metrics \in {T \cup {r \in EarningRows : r.pool_id # DepositPool} :
                      T \in SUBSET {r \in EarningRows : r.pool_id = DepositPool}}
    /\ nextId = 6
    /\ position \in PriorPositions
    /\ position0 = position
    /\ dpc = [c \in Callers |-> "idle"]
    /\ seen = [c \in Callers |-> None]
    /\ dres = [c \in Callers |-> None]
    /\ amount \in [Callers -> {1, 100}]
    /\ BeatInit
    /\ HistoryIdle
    /\ EarningIdle
    /\ NoSessions

SpecEarning == InitEarning /\ [][DepositNext]_vars

\* one call of get_user_positions, no deposit and no ingestion running
InitSummary ==
    /\ TaskIdle
    /\ retention_days = RetentionWindow
    /\ metrics \in SUBSET EarningRows
    /\ nextId = 6
    /\ position \in PriorPositions
    /\ position0 = position
    /\ dpc = [c \in Callers |-> "idle"]
    /\ seen = [c \in Callers |-> None]
    /\ dres = [c \in Callers |-> None]
    /\ amount = [c \in Callers |-> 1]
    /\ BeatInit
    /\ HistoryIdle
    /\ SummaryInit
    /\ CompoundIdle
    /\ NoSessions

SpecSummary == InitSummary /\ [][SummaryNext]_vars

\* no call of calculate_total_earning is or will be made
NoDepositCall ==
    /\ dpc = [c \in Callers |-> "nocall"]
    /\ position0 = position
    /\ seen = [c \in Callers |-> None]
    /\ dres = [c \in Callers |-> None]
    /\ amount = [c \in Callers |-> 1]

\* one operation that opens a session: the last firing of the task, or the
\* calls of calculate_total_earning, or one call of get_pool_apy_history, or
\* one call of get_user_positions, beside the queries of get_pool_ids; each
\* operation has a session of its own
InitSessions ==
    /\ clock = 0
    /\ TaskAtRest
    /\ BeatInit
    /\ CompoundIdle
    /\ NoSessions
    /\ \/ /\ retention_days \in {0, RetentionWindow}
          /\ cycle = MaxCycles - 1
          /\ metrics \in TablesLeft
          /\ nextId = 3
          /\ position = Some(1)
          /\ NoDepositCall
          /\ HistoryIdle
          /\ SummaryIdle
       \/ /\ retention_days = RetentionWindow
          /\ cycle = MaxCycles
          /\ metrics = {}
          /\ nextId = 1
          /\ DepositInit
          /\ HistoryIdle
          /\ SummaryIdle
       \/ /\ retention_days = RetentionWindow
          /\ cycle = MaxCycles
          /\ HistoryInit
          /\ position = None
          /\ NoDepositCall
          /\ SummaryIdle
       \/ /\ retention_days = RetentionWindow
          /\ cycle = MaxCycles
          /\ metrics \in SUBSET EarningRows
          /\ nextId = 6
          /\ position \in PriorPositions
          /\ NoDepositCall
          /\ HistoryIdle
          /\ SummaryInit

NextSessions ==
    \/ IngestNext
    \/ Read
    \/ DepositNext
    \/ HistoryNext
    \/ SummaryNext

SpecSessions == InitSessions /\ [][NextSessions]_vars

\* beat, the broker and the worker processes, executions abstracted
SpecBeat == Init /\ [][BeatNext]_vars

----------------------------------------------------------------------------
(* Claims *)

RECURSIVE SumAmounts(_)
SumAmounts(S) ==
    IF S = {} THEN 0
    ELSE LET c == CHOOSE x \in S : TRUE IN amount[c] + SumAmounts(S \ {c})

PriorAmount == IF position0 = None THEN 0 ELSE position0[1]

\* a row of pool_metrics without its id
Sample(r) == [pool_id |-> r.pool_id, apy |-> r.apy, bribe |-> r.bribe,
              trading_fee |-> r.trading_fee, crv_reward |-> r.crv_reward,
              recorded_at |-> r.recorded_at]

Samples(rows) == {Sample(r) : r \in rows}

\* what one run of the upsert loop at time t stores for a batch
StoredBy(batch, t) ==
    {PoolMetric(batch[k], GetDefault(batch[k], "recorded_at", t)) : k \in 1..Len(batch)}

\* the samples of a batch stored at time t that no later sample of the same
\* batch overwrites (a later sample with the same key updates the same row)
KeptBy(batch, t) ==
    {PoolMetric(batch[k], GetDefault(batch[k], "recorded_at", t)) :
        k \in {i \in 1..Len(batch) :
                 \A j \in (i + 1)..Len(batch) :
                     \/ batch[j].pool_id # batch[i].pool_id
                     \/ GetDefault(batch[j], "recorded_at", t)
                            # GetDefault(batch[i], "recorded_at", t)}}

PrimaryFailed == onchainOut.called /\ (onchainOut.raised \/ onchainOut.value = << >>)

InStore == pc \in {"begin", "upsert", "sweep", "commit"}

\* C1: when N concurrent calculate_total_earning calls for the same
\* (user_id, pool_id) have all returned, the stored amount is the prior
\* amount plus the sum of their amounts (no increment is lost).
C1_NoLostDeposit ==
    (\A c \in Callers : dpc[c] = "ok")
        => position = Some(PriorAmount + SumAmounts(Callers))

\* C2: a calculate_total_earning call that ends with an error leaves the
\* position row as it was before the call; stated for a call that ran while
\* no other call had started, so that the row before the call is position0.
C2_ErrorLeavesPosition ==
    \A c \in Callers :
        (dpc[c] = "error" /\ \A d \in Callers \ {c} : dpc[d] = "idle")
            => position = position0

C5_UpsertIdempotent ==
    (/\ pc = "success"
     /\ pool_metrics # << >>
     /\ \E t \in 0..MaxTime : Samples(metricsAtStart) = StoredBy(pool_metrics, t))
        => /\ inserted = 0
           /\ updated = Len(pool_metrics)
           /\ \A r1, r2 \in metrics :
                 (r1.pool_id = r2.pool_id /\ r1.recorded_at = r2.recorded_at) => r1 = r2

\* C6: when the primary raised or returned an empty list, the secondary was
\* called in the same attempt, the batch is the secondary's result, the
\* rows the attempt wrote are the secondary's samples, the primary's status
\* is 0 and its failure counter is one more than when the attempt started.
C6_FallbackToSecondary ==
    (PrimaryFailed /\ pc # "fetch")
        => /\ apiOut.called
           /\ status.onchain = Some(0)
           /\ failures.onchain = failuresAtStart.onchain + 1
           /\ (~apiOut.raised) => pool_metrics = apiOut.value
           /\ pc = "success"
                 => /\ KeptBy(apiOut.value, now) \subseteq Samples(metrics)
                    /\ Samples(metrics \ metricsAtStart) \subseteq StoredBy(apiOut.value, now)

\* C6 witness: the primary raised, the secondary returned pools, and the
\* cycle stored them
C6_Witness ==
    /\ pc = "success"
    /\ onchainOut.raised
    /\ apiOut.value # << >>
    /\ metrics # metricsAtStart

\* C7: if both providers fail in a cycle (the primary raises and the
\* secondary's network call or payload parsing fails), the cycle does not
\* complete as a success and writes no sample.
C7_BothFailIsFailure ==
    (onchainOut.raised /\ apiOut.called /\ apiOut.kind \in {"neterr", "badshape"})
        => /\ pc # "success"
           /\ Samples(metrics) \subseteq Samples(metricsAtStart)

\* C8: a cycle that obtained no data from either provider removes no stored
\* sample.
C8_OutageKeepsSamples ==
    (pc = "success" /\ PrimaryFailed /\ apiOut.called /\ apiOut.value = << >>)
        => metricsAtStart \subseteq metrics

\* C9: the batch of an attempt is one provider's result: the primary's if
\* and only if the primary returned a non-empty list without raising (and
\* then the secondary is not called), otherwise the secondary's; and the
\* rows a committed attempt wrote are samples of that one provider.
C9_OneSourcePerCycle ==
    (InStore \/ pc = "success")
        => LET primaryOk == ~onchainOut.raised /\ onchainOut.value # << >>
               chosen == IF primaryOk THEN onchainOut.value ELSE apiOut.value
           IN /\ onchainOut.called
              /\ apiOut.called <=> ~primaryOk
              /\ pool_metrics = chosen
              /\ pc = "success"
                    => Samples(metrics \ metricsAtStart) \subseteq StoredBy(chosen, now)

\* C9 witness: a cycle stored the primary's two pools on a table that held
\* rows written from the secondary
C9_Witness ==
    /\ pc = "success"
    /\ ~onchainOut.raised
    /\ Len(onchainOut.value) = 2
    /\ ~apiOut.called
    /\ \E r \in metricsAtStart : r.crv_reward = None
    /\ metrics # metricsAtStart

\* C10: a task execution ends in failure only when the retry budget is
\* exhausted: any exception raised earlier causes a retry.
C10_AnyExceptionRetried ==
    pc = "failure" => retries = MaxRetries

\* the executions of the current firing that have started: the first one and
\* one per retry that was taken up
Executions ==
    IF cycle = 0 THEN 0
    ELSE IF pc = "retry" THEN retries ELSE retries + 1

\* C11: a cycle is executed at most 3 times in total, and once it has ended
\* in failure it is not executed again.
C11_AtMostThreeExecutions ==
    /\ Executions <= 3
    /\ pc = "failure" => ~ENABLED Retry

\* the firings that are running or awaiting a retry
RunningOrRetrying ==
    {m.firing : m \in executing} \cup {m.firing : m \in {q \in broker : q.retries > 0}}

\* C12: at no time are two executions of the task running, and while a
\* firing is running or awaiting a retry no other firing is queued or
\* running: a firing that arrives meanwhile is skipped.
C12_SingleFlight ==
    /\ Cardinality(executing) <= 1
    /\ \A f \in RunningOrRetrying :
          \A m \in broker \cup executing : m.firing = f

\* C13: a failed firing does not stop beat from sending the next one, the
\* next one starts as a first execution (retries = 0), and a firing that has
\* ended, failed or not, leaves no message behind: each firing that is alive
\* has exactly one message and no firing is queued twice.
C13_FailureDoesNotBlock ==
    /\ [](/\ fired < MaxCycles => ENABLED BeatSend
          /\ \A m \in broker \cup executing :
                /\ m.firing <= fired
                /\ outcome[m.firing] = "none"
          /\ \A m1, m2 \in broker \cup executing :
                m1.firing = m2.firing => m1 = m2
          /\ \A f \in Firings :
                (f <= fired /\ outcome[f] = "none")
                    => \E m \in broker \cup executing : m.firing = f)
    /\ [][\A m \in (broker' \cup executing') \ (broker \cup executing) :
              m.firing > fired => m.retries = 0]_vars

\* C13 witness: the first firing exhausted its retries and failed, the
\* second one was sent after that and succeeded
C13_Witness ==
    /\ outcome[1] = "exhausted"
    /\ outcome[2] = "success"

\* C14: every execution that has started, and every retry that is awaited,
\* leads to the end of its firing in success or failure.
C14_CycleTerminates ==
    (pc \in {"fetch", "begin", "upsert", "sweep", "commit", "retry"})
        ~> (pc \in {"success", "failure"})

\* C14 witness: a firing ended in success on its last execution, after all
\* the retries it is allowed
C14_Witness ==
    /\ pc = "success"
    /\ retries = MaxRetries

\* the retention cutoff of the attempt
Cutoff == now - retention_days

\* the rows of the table that the attempt inserted
InsertedRows == {r \in metrics : r.id \notin {q.id : q \in metricsAtStart}}

C16_FreshSampleSurvivesSweep ==
    /\ pc \in {"sweep", "commit"} => idx = Len(pool_metrics)
    /\ pc = "success"
          => \A k \in 1..Len(pool_metrics) :
                LET recorded_at == GetDefault(pool_metrics[k], "recorded_at", now)
                IN (\A r \in metricsAtStart :
                        ~(r.pool_id = pool_metrics[k].pool_id /\ r.recorded_at = recorded_at))
                   => PoolMetric(pool_metrics[k], recorded_at) \in Samples(InsertedRows)

\* C16 witness: a committed cycle with retention on inserted a sample older
\* than its cutoff, and the sample is in the table
C16_Witness ==
    /\ pc = "success"
    /\ retention_days > 0
    /\ \E r \in InsertedRows : r.recorded_at < Cutoff

\* C17: a failure of the retention sweep does not fail the cycle: from the
\* sweep, with retention on, the execution always goes on to the commit,
\* with its batch still pending and without using a retry.
C17_SweepFailureTolerated ==
    [][(pc = "sweep" /\ retention_days > 0)
          => /\ pc' = "commit"
             /\ retries' = retries
             /\ sessNew' = sessNew]_vars

\* the stored samples the call asks for
Requested ==
    {r \in metrics :
        /\ r.pool_id = hargs[1].pool_id
        /\ hargs[1].start # None => hargs[1].start[1] <= r.recorded_at
        /\ hargs[1].end # None => r.recorded_at <= hargs[1].end[1]}

InvalidRange ==
    /\ hargs[1].start # None
    /\ hargs[1].end # None
    /\ hargs[1].start[1] > hargs[1].end[1]

\* C18: a call whose range is valid and holds no sample of the pool ends,
\* when the database works, with HTTP 404 "Pool not found"; a call with
\* start > end ends with HTTP 400.
C18_NotFoundIs404 ==
    (hout # None /\ hout[1].raised # "SQLAlchemyError")
        => /\ InvalidRange => hout[1].status_code = 400
           /\ (~InvalidRange /\ Requested = {})
                 => /\ hout[1].status_code = 404
                    /\ hout[1].detail = "Pool not found"

\* C19: a call that succeeds returns every stored sample of the pool with
\* start <= recorded_at <= end once, and nothing else, in ascending order of
\* recorded_at.
C19_HistoryExactAndOrdered ==
    (hout # None /\ hout[1].status_code = 200)
        => LET rows == hout[1].rows
           IN /\ {rows[i] : i \in 1..Len(rows)} = Requested
              /\ Len(rows) = Cardinality(Requested)
              /\ \A i \in 1..Len(rows) : rows[i].pool_id = hargs[1].pool_id
              /\ \A i, j \in 1..Len(rows) :
                    i < j => rows[i].recorded_at <= rows[j].recorded_at

\* C19 witness: a call with both bounds returned several samples from a
\* table that also holds a sample of another pool and samples of the same
\* pool outside the range
C19_Witness ==
    /\ hout # None
    /\ hout[1].status_code = 200
    /\ Len(hout[1].rows) >= 2
    /\ hargs[1].start # None
    /\ hargs[1].end # None
    /\ \E r \in metrics : r.pool_id # hargs[1].pool_id
    /\ \E r \in metrics : r.pool_id = hargs[1].pool_id /\ r \notin Requested

\* C20: a calculate_total_earning call with amount <= 0 ends with an error
\* and leaves the position row as it was; stated for a call that ran while
\* no other call had started and that is past its commit.
C20_NonPositiveAmountRejected ==
    \A c \in Callers :
        (/\ amount[c] <= 0
         /\ dpc[c] \in {"committed", "ok", "error"}
         /\ \A d \in Callers \ {c} : dpc[d] = "idle")
            => /\ dpc[c] = "error"
               /\ position = position0

\* C21: the amount of a position never decreases: no step lowers the stored
\* amount of the (user_id, pool_id) row or deletes the row.
C21_AmountNeverDecreases ==
    [][position # None
         => position' # None /\ position'[1] >= position[1]]_vars

\* the returns of a sequence that are not None
RECURSIVE NonNull(_)
NonNull(rs) ==
    IF rs = << >> THEN << >>
    ELSE IF Head(rs) = None THEN NonNull(Tail(rs))
    ELSE <<Head(rs)[1]>> \o NonNull(Tail(rs))

\* the product of (1 + r/100) over a sequence of returns
RECURSIVE GrowthProduct(_)
GrowthProduct(rs) ==
    IF rs = << >> THEN Float(1)
    ELSE Mul(Add(Float(1), Mul(Head(rs), Frac(1, 100))), GrowthProduct(Tail(rs)))

\* C24: calculate_compound_apy(returns) is (P - 1) * 100, P the product of
\* (1 + r/100) over the entries that are not None; it is 0 for an empty or
\* all-None sequence, 21 for [10, 10], 10 for [None, 10] and -14.5 for
\* [-10, -5].
C24_CompoundIsProduct ==
    compound_apy # None =>
        /\ compound_apy[1] = Mul(Sub(GrowthProduct(NonNull(returns)), Float(1)), Float(100))
        /\ NonNull(returns) = << >> => compound_apy[1] = Float(0)
        /\ returns = <<Some(Float(10)), Some(Float(10))>> => compound_apy[1] = Float(21)
        /\ returns = <<None, Some(Float(10))>> => compound_apy[1] = Float(10)
        /\ returns = <<Some(Float(-10)), Some(Float(-5))>> => compound_apy[1] = Frac(-29, 2)

\* the call on [-10, -5] has returned -14.5
C24_Witness ==
    /\ returns = <<Some(Float(-10)), Some(Float(-5))>>
    /\ compound_apy = Some(<<-29, 2>>)

\* the product of (1 + apy/100) over the samples of a set that have an apy
RECURSIVE GrowthOver(_)
GrowthOver(rows) ==
    IF rows = {} THEN Float(1)
    ELSE LET r == CHOOSE x \in rows : TRUE
         IN Mul(IF r.apy = None THEN Float(1)
                ELSE Add(Float(1), Frac(r.apy[1], 100)),
                GrowthOver(rows \ {r}))

\* the compounded rate of the full history of a pool, in percent
CompoundedRate(pool_id) ==
    Mul(Sub(GrowthOver({r \in metrics : r.pool_id = pool_id}), Float(1)), Float(100))

\* the call of c ran while no other call was made
RanAlone(c) == \A d \in Callers \ {c} : dpc[d] = "idle"

\* C22: a successful calculate_total_earning returns as total_amount the
\* cumulative amount of the position including this deposit (for a call that
\* ran on its own: the prior amount plus the deposit) and as
\* projected_earning total_amount * C / 100, C the compounded rate of the
\* pool's full history; 0 when the pool has no sample, 21 for a first
\* deposit of 100 on the history [10, 10].
C22_TotalEarning ==
    \A c \in Callers :
        dpc[c] = "ok" =>
            /\ dres[c] # None
            /\ RanAlone(c) => dres[c][1].total_amount = Float(PriorAmount + amount[c])
            /\ dres[c][1].projected_earning =
                   Mul(dres[c][1].total_amount, Mul(CompoundedRate(DepositPool), Frac(1, 100)))
            /\ {r \in metrics : r.pool_id = DepositPool} = {}
                   => dres[c][1].projected_earning = Float(0)
            /\ ( /\ RanAlone(c)
                 /\ position0 = None
                 /\ amount[c] = 100
                 /\ {r.id : r \in {x \in metrics : x.pool_id = DepositPool}} = {1, 2} )
                   => dres[c][1].projected_earning = Float(21)

\* a first deposit of 100 on the history [10, 10] has returned 21
C22_Witness ==
    \E c \in Callers :
        /\ dpc[c] = "ok"
        /\ RanAlone(c)
        /\ position0 = None
        /\ amount[c] = 100
        /\ {r.id : r \in {x \in metrics : x.pool_id = DepositPool}} = {1, 2}
        /\ dres[c] # None
        /\ dres[c][1].total_amount = Float(100)
        /\ dres[c][1].projected_earning = Float(21)

\* the sum of a sequence of floats
RECURSIVE SumOf(_)
SumOf(xs) == IF xs = << >> THEN Float(0) ELSE Add(Head(xs), SumOf(Tail(xs)))

\* the position rows of the user the summary is asked for
PositionsOfUser == {r \in UserPosition : r.user_id = sargs[1]}

\* C23: get_user_positions returns one item per position row of the user,
\* with total_amount and total_projected_earning the sums of the items'
\* amount and projected_earning; a position whose pool has no sample gives
\* projected_earning = 0 and current_apr = 0, and no table keeps the call
\* from returning.
C23_SummaryAggregates ==
    /\ (sargs # None /\ summary = None) => SummaryResults # {}
    /\ (summary # None /\ summary[1].raised = "none") =>
          LET items == summary[1].positions
          IN /\ Len(items) = Cardinality(PositionsOfUser)
             /\ \A r \in PositionsOfUser :
                   \E i \in 1..Len(items) :
                      /\ items[i].pool_id = r.pool_id
                      /\ items[i].amount = Float(r.amount)
             /\ summary[1].total_amount =
                   SumOf([i \in 1..Len(items) |-> items[i].amount])
             /\ summary[1].total_projected_earning =
                   SumOf([i \in 1..Len(items) |-> items[i].projected_earning])
             /\ \A i \in 1..Len(items) :
                   {r \in metrics : r.pool_id = items[i].pool_id} = {}
                      => /\ items[i].projected_earning = Float(0)
                         /\ items[i].current_apr = Float(0)

\* the summary of a user with a position in a pool without samples and
\* positions in two pools with samples has been returned
C23_Witness ==
    /\ summary # None
    /\ summary[1].raised = "none"
    /\ Len(summary[1].positions) = 3
    /\ {r \in metrics : r.pool_id = "p3"} = {}
    /\ \E i \in 1..3 : /\ summary[1].positions[i].pool_id = "p3"
                       /\ summary[1].positions[i].projected_earning = Float(0)
    /\ \E i \in 1..3 : summary[1].positions[i].projected_earning # Float(0)
    /\ summary[1].total_projected_earning # Float(0)

\* C25: a sample obtained from the REST provider and stored by a cycle has
\* as crv_reward the apy of the first gaugeRewards entry whose token is the
\* reward token in any case (7 for ApiP1, 0 where no entry matches), and none
\* of its numeric fields is null.
C25_CrvRewardStored ==
    /\ ApiPool(ApiP1).crv = 7
    /\ ApiPool(ApiP2).crv = 0
    /\ (pc = "success" /\ PrimaryFailed /\ ~apiOut.raised) =>
          \A r \in metrics :
             (r.recorded_at = now /\ \E k \in 1..Len(apiOut.value) :
                                        apiOut.value[k].pool_id = r.pool_id)
                => /\ r.apy # None
                   /\ r.bribe # None
                   /\ r.trading_fee # None
                   /\ \E k \in 1..Len(apiOut.value) :
                         /\ apiOut.value[k].pool_id = r.pool_id
                         /\ r.crv_reward = Some(apiOut.value[k].crv)

\* C26: the delays of the successive retries of a failing cycle grow: the
\* delay before retry k+1 is strictly larger than the delay before retry k.
C26_ExponentialBackoff ==
    \A k \in 1..(MaxRetries - 1) :
        countdowns[k + 1] # None => countdowns[k + 1][1] > countdowns[k][1]

\* C27: after any sequence of ingestion cycles the table holds at most one
\* sample for each identity key (pool_id, recorded_at).
C27_OneSamplePerKey ==
    \A r \in metrics : \A q \in metrics :
        (r.pool_id = q.pool_id /\ r.recorded_at = q.recorded_at) => r = q

\* a session that was opened was opened once and closed last
Closed(log) ==
    log # << >> =>
        /\ Head(log) = "open"
        /\ log[Len(log)] = "close"
        /\ \A i \in 2..Len(log) : log[i] # "open"
        /\ \A i \in 1..(Len(log) - 1) : log[i] # "close"

\* the session was rolled back before it was closed
RolledBack(log) == \E i \in 1..(Len(log) - 1) : log[i] = "rollback"

\* C28: when an operation that opened a session has ended (returned, raised
\* to its caller, or asked for a retry), its session is closed, and if it
\* ended with an error the session was rolled back before that.
C28_SessionRolledBackAndClosed ==
    /\ pc \in {"idle", "retry", "failure", "success"} => Closed(sessionLog.task)
    /\ pc = "success" => sessionLog.task # << >>
    /\ (pc \in {"retry", "failure"} /\ sessionLog.task # << >>)
          => RolledBack(sessionLog.task)
    /\ \A c \in Callers :
          dpc[c] \in {"ok", "error"}
             => /\ sessionLog.deposit[c] # << >>
                /\ Closed(sessionLog.deposit[c])
                /\ dpc[c] = "error" => RolledBack(sessionLog.deposit[c])
    /\ hout # None
          => /\ sessionLog.history # << >>
             /\ Closed(sessionLog.history)
             /\ hout[1].raised # "none" => RolledBack(sessionLog.history)
    /\ summary # None
          => /\ sessionLog.summary # << >>
             /\ Closed(sessionLog.summary)
             /\ summary[1].raised # "none" => RolledBack(sessionLog.summary)

\* the store phase of the task raised and a retry was asked for
C28_Witness ==
    /\ pc = "retry"
    /\ sessionLog.task = <<"open", "rollback", "close">>

\* the stored state: the tables pool_metrics and user_positions
Stored == <<metrics, position, user_positions>>

\* C29: a step of a request-side operation (get_pool_ids,
\* get_pool_apy_history, calculate_total_earning, get_user_positions) leaves
\* pool_metrics unchanged, a step of the ingestion task leaves the
\* user_positions rows unchanged, and get_pool_ids, get_pool_apy_history and
\* get_user_positions change no stored state.
C29_Frame ==
    [][ /\ (dpc' # dpc \/ dres' # dres) => metrics' = metrics
        /\ (hout' # hout \/ summary' # summary
              \/ (readerView' # readerView /\ readerView' # NoQuery))
              => Stored' = Stored
        /\ (<<pc, idx, cycle, retries>>' # <<pc, idx, cycle, retries>>)
              => <<position, user_positions>>' = <<position, user_positions>> ]_vars

\* a cycle has stored its batch while a position row exists
C29_Witness ==
    /\ pc = "success"
    /\ metrics # metricsAtStart
    /\ position = Some(1)

\* the rows the firing has added to the table left by the earlier firings
AddedByFiring == {r \in metrics : r.id >= 3}

\* C30: when a cycle has ended in success after k >= 0 failed attempts, the
\* rows it added to the store are the samples of the successful attempt,
\* once each (an attempt that raised added none), and the inserted-metrics
\* counter has grown by the number of rows the cycle added.
C30_SamplesExactlyOnce ==
    pc = "success" =>
        /\ Samples(AddedByFiring) \subseteq StoredBy(pool_metrics, now)
        /\ Cardinality(AddedByFiring) = inserted
        /\ insertedTotal = Cardinality(AddedByFiring)

====
